---- MODULE Spec2Model ----
(***************************************************************************)
(* Model of wasm-core/src/lib.rs: the archive inspector behind             *)
(* inspect_ooxml.  A byte buffer is represented by what the zip reader     *)
(* makes of it: whether the container opens, and the directory records in  *)
(* on-disk order, each with its stored name, its decompressed payload and  *)
(* the failures reading it produces.  Names are sequences of characters,   *)
(* payloads sequences of bytes, decoded text a sequence of code points.    *)
(***************************************************************************)
EXTENDS Integers, Sequences, FiniteSets, TLC

VARIABLES
    bytes,          \* the caller's buffer (argument of inspect_archive)
    pc,             \* "idle" before any call, "loop" inside the for, "done" on return
    archive,        \* the call's own ZipArchive over bytes.to_vec(): its records
    index,          \* loop index (1-based)
    entries,        \* the Vec<ArchiveEntry> being built
    result,         \* Result<ArchiveSummary, String> of the last finished call
    visited,        \* indices handed to by_index during the current call
    payload_reads,  \* indices whose payload was read with read_to_end
    hook,           \* whether the panic hook has been installed by init()
    prev            \* a finished call the host kept: <<>> or <<[bytes, result, hook]>>

vars == <<bytes, pc, archive, index, entries, result, visited, payload_reads, hook, prev>>

(***************************************************************************)
(* Bounds                                                                  *)
(***************************************************************************)
MaxRecords == 2     \* directory records per archive
MaxPayload == 2     \* bytes per payload

(***************************************************************************)
(* Text helpers                                                            *)
(***************************************************************************)
Upper == <<"A","B","C","D","E","F","G","H","I","J","K","L","M",
           "N","O","P","Q","R","S","T","U","V","W","X","Y","Z">>
Lower == <<"a","b","c","d","e","f","g","h","i","j","k","l","m",
           "n","o","p","q","r","s","t","u","v","w","x","y","z">>

\* char::to_ascii_lowercase
LowerChar(c) ==
    IF \E i \in 1..26 : Upper[i] = c
    THEN Lower[CHOOSE i \in 1..26 : Upper[i] = c]
    ELSE c

\* str::to_ascii_lowercase
ToAsciiLowercase(s) == [i \in 1..Len(s) |-> LowerChar(s[i])]

\* path.rsplit('.').next(): the piece after the last '.'; the whole string
\* when there is no '.' (rsplit always yields at least one piece)
RsplitDotFirst(s) ==
    LET dots == {i \in 1..Len(s) : s[i] = "."}
        last == IF dots = {} THEN 0 ELSE CHOOSE i \in dots : \A j \in dots : j <= i
    IN  SubSeq(s, last + 1, Len(s))

TextualExts == { <<"x","m","l">>, <<"r","e","l","s">>, <<"t","x","t">> }

IsTextualCaseSensitive(path) == RsplitDotFirst(path) \in TextualExts

\* fn is_textual_entry
IsTextualEntry(path) == ToAsciiLowercase(RsplitDotFirst(path)) \in TextualExts

StripOneSlash(s) ==
    IF Len(s) > 0 /\ s[Len(s)] = "/" THEN SubSeq(s, 1, Len(s) - 1) ELSE s

\* str::trim_end_matches('/'): removes the pattern repeatedly
RECURSIVE TrimEndMatches(_)
TrimEndMatches(s) ==
    IF Len(s) > 0 /\ s[Len(s)] = "/"
    THEN TrimEndMatches(SubSeq(s, 1, Len(s) - 1))
    ELSE s

NeverDir(name) == FALSE

\* ZipFile::is_dir: the stored name ends in '/' or '\'
IsDir(name) == Len(name) > 0 /\ name[Len(name)] \in {"/", "\\"}

(***************************************************************************)
(* String::from_utf8_lossy                                                 *)
(***************************************************************************)
Replacement == 65533        \* U+FFFD

Utf8CharWidth(b) ==
    IF b < 128 THEN 1
    ELSE IF b >= 194 /\ b <= 223 THEN 2
    ELSE IF b >= 224 /\ b <= 239 THEN 3
    ELSE IF b >= 240 /\ b <= 244 THEN 4
    ELSE 0

IsCont(b) == b >= 128 /\ b <= 191

\* the ranges the second byte of a 3- or 4-byte sequence must lie in
SecondOk(b0, b1) ==
    \/ b0 = 224 /\ b1 >= 160 /\ b1 <= 191
    \/ b0 >= 225 /\ b0 <= 236 /\ IsCont(b1)
    \/ b0 = 237 /\ b1 >= 128 /\ b1 <= 159
    \/ b0 >= 238 /\ b0 <= 239 /\ IsCont(b1)
    \/ b0 = 240 /\ b1 >= 144 /\ b1 <= 191
    \/ b0 >= 241 /\ b0 <= 243 /\ IsCont(b1)
    \/ b0 = 244 /\ b1 >= 128 /\ b1 <= 143

RECURSIVE Lossy(_, _)
Lossy(b, i) ==
    IF i > Len(b) THEN <<>>
    ELSE
      LET get(j) == IF j <= Len(b) THEN b[j] ELSE 0
          b0 == b[i]
          w  == Utf8CharWidth(b0)
      IN  IF w = 1 THEN <<b0>> \o Lossy(b, i + 1)
          ELSE IF w = 2 THEN
              IF IsCont(get(i + 1))
              THEN <<(b0 % 32) * 64 + (get(i + 1) % 64)>> \o Lossy(b, i + 2)
              ELSE <<Replacement>> \o Lossy(b, i + 1)
          ELSE IF w = 3 THEN
              IF ~SecondOk(b0, get(i + 1)) THEN <<Replacement>> \o Lossy(b, i + 1)
              ELSE IF ~IsCont(get(i + 2)) THEN <<Replacement>> \o Lossy(b, i + 2)
              ELSE <<(b0 % 16) * 4096 + (get(i + 1) % 64) * 64 + (get(i + 2) % 64)>>
                   \o Lossy(b, i + 3)
          ELSE IF w = 4 THEN
              IF ~SecondOk(b0, get(i + 1)) THEN <<Replacement>> \o Lossy(b, i + 1)
              ELSE IF ~IsCont(get(i + 2)) THEN <<Replacement>> \o Lossy(b, i + 2)
              ELSE IF ~IsCont(get(i + 3)) THEN <<Replacement>> \o Lossy(b, i + 3)
              ELSE <<(b0 % 8) * 262144 + (get(i + 1) % 64) * 4096
                     + (get(i + 2) % 64) * 64 + (get(i + 3) % 64)>>
                   \o Lossy(b, i + 4)
          ELSE <<Replacement>> \o Lossy(b, i + 1)

FromUtf8Lossy(buffer) == Lossy(buffer, 1)

\* String::len of a text: its length in UTF-8 bytes
RECURSIVE StrLen(_)
StrLen(text) ==
    IF text = <<>> THEN 0
    ELSE LET c == Head(text)
         IN  (IF c < 128 THEN 1 ELSE IF c < 2048 THEN 2 ELSE IF c < 65536 THEN 3 ELSE 4)
             + StrLen(Tail(text))

(***************************************************************************)
(* Entries and results                                                     *)
(***************************************************************************)
NoErr == ""

DirEntrySized(name) ==
    [path |-> TrimEndMatches(name), is_dir |-> TRUE, size |-> Len(name), content |-> <<>>]

\* lines 48-53: the entry pushed for a directory record
DirEntry(name) ==
    [path |-> TrimEndMatches(name), is_dir |-> TRUE, size |-> 0, content |-> <<>>]

ContentLen(buffer) == StrLen(FromUtf8Lossy(buffer))

\* line 60: size = buffer.len()
BufferLen(buffer) == Len(buffer)

FileEntryNoContent(name, buffer) ==
    [path |-> name, is_dir |-> FALSE, size |-> BufferLen(buffer), content |-> <<>>]

\* lines 62-74: the entry pushed for a file record; content is an Option
FileEntry(name, buffer) ==
    [path |-> name, is_dir |-> FALSE, size |-> BufferLen(buffer),
     content |-> IF IsTextualEntry(name) THEN <<FromUtf8Lossy(buffer)>> ELSE <<>>]

PushFront(es, e) == <<e>> \o es

\* Vec::push
Push(es, e) == Append(es, e)

\* line 39: a fresh vector for every call
FreshEntries == <<>>

PartialResult(msg, es) == [err |-> <<msg>>, summary |-> <<es>>]

\* the `?` on a mapped error: the call returns Err(msg), the entries are dropped
ErrResult(msg, es) == [err |-> <<msg>>, summary |-> <<>>]

\* line 77: Ok(ArchiveSummary { entries })
OkResult(es) == [err |-> <<>>, summary |-> <<es>>]

(***************************************************************************)
(* Inputs                                                                  *)
(***************************************************************************)
Rec(n, d, r, e) == [name |-> n, data |-> d, read_err |-> r, data_err |-> e]

Zip(rs) == [open_err |-> NoErr, records |-> rs]

\* buffers ZipArchive::new rejects: empty, not a zip, truncated directory
MalformedBuffers ==
    { [open_err |-> m, records |-> <<>>] :
        m \in { "empty buffer: invalid Zip archive",
                "not a zip: invalid Zip archive",
                "truncated: invalid Zip archive" } }

SampleNames ==
    { <<"w","o","r","d","/">>,
      <<"w","o","r","d","/","/">>,
      <<"w","o","r","d","/","d","o","c","u","m","e","n","t",".","x","m","l">>,
      <<"A",".","X","M","L">>,
      <<"x",".","R","e","l","s">>,
      <<"b",".","t","x","t">>,
      <<"x","m","l">>,
      <<"R","E","L","S">>,
      <<"i","m","a","g","e",".","p","n","g">>,
      <<"a",".","x","m","l","/">>,
      <<"a",".","x","m","l",".","b","a","k">>,
      <<"a",".">>,
      <<"d","\\">> }

\* 'A', a two-byte lead (0xC3) and a continuation byte (0xA9)
SampleBytes == {65, 195, 169}

RECURSIVE SeqsUpTo(_, _)
SeqsUpTo(S, n) ==
    IF n = 0 THEN { <<>> }
    ELSE LET shorter == SeqsUpTo(S, n - 1)
         IN  shorter \cup { Append(s, x) : s \in shorter, x \in S }

Payloads == SeqsUpTo(SampleBytes, MaxPayload)

ReadErrs == { NoErr, "unsupported Zip archive: Compression method not supported" }
DataErrs == { NoErr, "Invalid checksum" }

Records == { Rec(n, d, r, e) : n \in SampleNames, d \in Payloads,
                               r \in ReadErrs, e \in DataErrs }

\* the records that accompany a freely chosen one
FillRecords ==
    { Rec(<<"w","o","r","d","/">>, <<>>, NoErr, NoErr),
      Rec(<<"A",".","X","M","L">>, <<65>>, NoErr, NoErr),
      Rec(<<"i","m","a","g","e",".","p","n","g">>, <<195>>, NoErr, NoErr) }

\* the archive built by tests::exposes_directory_and_xml_content
TestPayload ==
    << 60, 119, 58, 100, 111, 99, 117, 109, 101, 110, 116, 62, 60, 119, 58, 116,
       62, 84, 101, 115, 116, 60, 47, 119, 58, 116, 62, 60, 47, 119, 58, 100, 111,
       99, 117, 109, 101, 110, 116, 62 >>

TestArchive ==
    Zip(<< Rec(<<"w","o","r","d","/">>, <<>>, NoErr, NoErr),
           Rec(<<"w","o","r","d","/","d","o","c","u","m","e","n","t",".","x","m","l">>,
               TestPayload, NoErr, NoErr) >>)

\* archives of up to MaxRecords records: fillers, at most one of them (i > 0)
\* replaced by a freely chosen record
FillSeqs == SeqsUpTo(FillRecords, MaxRecords)

ArchiveChoice(rs, i, r) == Zip(IF i = 0 THEN rs ELSE [rs EXCEPT ![i] = r])

\* the buffers of the repeated-call specification
CallRecords ==
    { Rec(<<"w","o","r","d","/">>, <<>>, NoErr, NoErr),
      Rec(<<"A",".","X","M","L">>, <<65, 195>>, NoErr, NoErr),
      Rec(<<"i","m","a","g","e",".","p","n","g">>, <<195>>, NoErr, "Invalid checksum"),
      Rec(<<"x","m","l">>, <<65>>,
          "unsupported Zip archive: Compression method not supported", NoErr) }

CallBuffers ==
    { Zip(rs) : rs \in SeqsUpTo(CallRecords, MaxRecords) } \cup MalformedBuffers

(***************************************************************************)
(* The state machine                                                       *)
(***************************************************************************)
NoResult == [err |-> <<>>, summary |-> <<>>]

Init ==
    /\ bytes = Zip(<<>>)
    /\ pc = "idle"
    /\ archive = <<>>
    /\ index = 1
    /\ entries = <<>>
    /\ result = NoResult
    /\ visited = <<>>
    /\ payload_reads = {}
    /\ hook = FALSE
    /\ prev = <<>>

\* fn init (lines 22-24): set_panic_hook installs the hook once
InitHook ==
    /\ pc = "idle"
    /\ hook' = TRUE
    /\ UNCHANGED <<bytes, pc, archive, index, entries, result, visited, payload_reads, prev>>

OpenArchiveHooked(b) == IF hook THEN b.records ELSE <<>>

\* line 37: the ZipArchive over the copied buffer; its len() and by_index follow
\* the directory records
OpenArchive(b) == b.records

\* lines 36-37: ZipArchive::new over a copy of the buffer fails
CallOpenFails(b) ==
    /\ pc = "idle"
    /\ b.open_err # NoErr
    /\ bytes' = b
    /\ result' = ErrResult(b.open_err, entries)
    /\ archive' = <<>>
    /\ index' = 1
    /\ visited' = <<>>
    /\ payload_reads' = {}
    /\ pc' = "done"
    /\ UNCHANGED <<entries, hook, prev>>

\* lines 36-41: the container opens; the loop starts with an empty vector
CallOpens(b) ==
    /\ pc = "idle"
    /\ b.open_err = NoErr
    /\ bytes' = b
    /\ archive' = OpenArchive(b)
    /\ entries' = FreshEntries
    /\ index' = 1
    /\ visited' = <<>>
    /\ payload_reads' = {}
    /\ result' = NoResult
    /\ pc' = "loop"
    /\ UNCHANGED <<hook, prev>>

InLoop == pc = "loop" /\ index <= Len(archive)

\* lines 42-44: by_index(index) fails
ByIndexFails ==
    /\ InLoop
    /\ archive[index].read_err # NoErr
    /\ visited' = Append(visited, index)
    /\ result' = ErrResult(archive[index].read_err, entries)
    /\ pc' = "done"
    /\ UNCHANGED <<bytes, archive, index, entries, payload_reads, hook, prev>>

\* lines 47-55: a directory record
PushDirectory ==
    /\ InLoop
    /\ archive[index].read_err = NoErr
    /\ IsDir(archive[index].name)
    /\ visited' = Append(visited, index)
    /\ entries' = Push(entries, DirEntry(archive[index].name))
    /\ index' = index + 1
    /\ UNCHANGED <<bytes, pc, archive, result, payload_reads, hook, prev>>

\* lines 57-59: read_to_end fails
ReadToEndFails ==
    /\ InLoop
    /\ archive[index].read_err = NoErr
    /\ ~IsDir(archive[index].name)
    /\ archive[index].data_err # NoErr
    /\ visited' = Append(visited, index)
    /\ payload_reads' = payload_reads \cup {index}
    /\ result' = ErrResult(archive[index].data_err, entries)
    /\ pc' = "done"
    /\ UNCHANGED <<bytes, archive, index, entries, hook, prev>>

\* lines 57-74: a file record
PushFile ==
    /\ InLoop
    /\ archive[index].read_err = NoErr
    /\ ~IsDir(archive[index].name)
    /\ archive[index].data_err = NoErr
    /\ visited' = Append(visited, index)
    /\ payload_reads' = payload_reads \cup {index}
    /\ entries' = Push(entries, FileEntry(archive[index].name, archive[index].data))
    /\ index' = index + 1
    /\ UNCHANGED <<bytes, pc, archive, result, hook, prev>>

\* line 77: the loop is over
Finish ==
    /\ pc = "loop"
    /\ index > Len(archive)
    /\ result' = OkResult(entries)
    /\ pc' = "done"
    /\ UNCHANGED <<bytes, archive, index, entries, visited, payload_reads, hook, prev>>

\* the host keeps the buffer and the result of a finished call
Keep ==
    /\ pc = "done"
    /\ prev' = << [bytes |-> bytes, result |-> result, hook |-> hook] >>
    /\ UNCHANGED <<bytes, pc, archive, index, entries, result, visited, payload_reads, hook>>

\* the call returns to the host; its locals are gone
Return ==
    /\ pc = "done"
    /\ pc' = "idle"
    /\ bytes' = Zip(<<>>)
    /\ archive' = <<>>
    /\ index' = 1
    /\ entries' = <<>>
    /\ result' = NoResult
    /\ visited' = <<>>
    /\ payload_reads' = {}
    /\ UNCHANGED <<hook, prev>>

Body ==
    \/ ByIndexFails
    \/ PushDirectory
    \/ ReadToEndFails
    \/ PushFile
    \/ Finish
    \/ Return

Next ==
    \/ InitHook
    \/ \E b \in MalformedBuffers : CallOpenFails(b)
    \/ CallOpens(TestArchive)
    \/ /\ pc = "idle"
       /\ \E rs \in FillSeqs : \E i \in 0..Len(rs) :
            \E r \in (IF i = 0 THEN FillRecords ELSE Records) :
                CallOpens(ArchiveChoice(rs, i, r))
    \/ Body

Spec == Init /\ [][Next]_vars

\* repeated calls, the host comparing against a call it kept
NextCalls ==
    \/ InitHook
    \/ \E b \in CallBuffers : CallOpenFails(b)
    \/ \E b \in CallBuffers : CallOpens(b)
    \/ Body
    \/ Keep

SpecCalls == Init /\ [][NextCalls]_vars

(***************************************************************************)
(* Properties                                                              *)
(***************************************************************************)
Done == pc = "done"
Succeeded == Done /\ result.err = <<>> /\ Len(result.summary) = 1
Summary == result.summary[1]
DirRecords == bytes.records

IsPrefix(p, n) == Len(p) <= Len(n) /\ SubSeq(n, 1, Len(p)) = p
EndsIn(n, cs) == Len(n) > 0 /\ n[Len(n)] \in cs
NamesDirectory(n) == EndsIn(n, {"/", "\\"})

\* the extension as the specification words it: nothing without a '.',
\* otherwise the text after the last '.'
Extension(n) ==
    IF \A i \in 1..Len(n) : n[i] # "." THEN <<>>
    ELSE LET p == CHOOSE i \in 1..Len(n) :
                    n[i] = "." /\ \A j \in (i + 1)..Len(n) : n[j] # "."
         IN  << SubSeq(n, p + 1, Len(n)) >>
HasTextualExtension(n) ==
    Extension(n) # <<>> /\ ToAsciiLowercase(Extension(n)[1]) \in TextualExts

\* what makes a call fail at a record: the record cannot be read, or it is a
\* file whose payload cannot be decompressed
Fails(r) == r.read_err # NoErr \/ (~NamesDirectory(r.name) /\ r.data_err # NoErr)
FailureMsg(r) == IF r.read_err # NoErr THEN r.read_err ELSE r.data_err
FirstFailure(i) == Fails(DirRecords[i]) /\ \A j \in 1..(i - 1) : ~Fails(DirRecords[j])

FromRecord(e, r) ==
    /\ e.is_dir = NamesDirectory(r.name)
    /\ e.is_dir => IsPrefix(e.path, r.name) /\ e.size = 0
    /\ ~e.is_dir => e.path = r.name /\ e.size = Len(r.data)

\* C1: a successful summary has one entry per directory record, the i-th entry
\* made from the i-th record, in archive order; records sharing a name each
\* keep their own entry.
C1_OneEntryPerRecord ==
    Succeeded =>
        /\ Len(Summary) = Len(DirRecords)
        /\ \A i \in 1..Len(DirRecords) : FromRecord(Summary[i], DirRecords[i])

C1_Witness ==
    /\ Succeeded
    /\ Len(DirRecords) = 2
    /\ DirRecords[1].name = DirRecords[2].name
    /\ DirRecords[1].data # DirRecords[2].data
    /\ Summary[1] # Summary[2]

\* C2 as stated: a directory's path is its name with exactly one trailing '/'
\* removed, so a name ending in two keeps one.
C2_StripsExactlyOne ==
    Succeeded =>
        \A i \in 1..Len(DirRecords) :
            EndsIn(DirRecords[i].name, {"/"}) =>
                Summary[i].path = SubSeq(DirRecords[i].name, 1, Len(DirRecords[i].name) - 1)

\* C2 amended: a directory's path is its name with every trailing '/' removed;
\* what is cut off is nothing but '/', and the path does not end in '/'.
C2_StripsAllSlashes ==
    Succeeded =>
        \A i \in 1..Len(DirRecords) :
            NamesDirectory(DirRecords[i].name) =>
                LET n == DirRecords[i].name
                    q == Summary[i].path
                IN  /\ IsPrefix(q, n)
                    /\ \A j \in (Len(q) + 1)..Len(n) : n[j] = "/"
                    /\ ~EndsIn(q, {"/"})

C2_Witness ==
    /\ Succeeded
    /\ \E i \in 1..Len(DirRecords) :
        LET n == DirRecords[i].name
        IN  /\ Len(n) >= 3 /\ n[Len(n)] = "/" /\ n[Len(n) - 1] = "/"
            /\ Summary[i].is_dir
            /\ Len(Summary[i].path) = Len(n) - 2

\* C3: a file entry whose name has no '.', or whose extension lower-cased is
\* not xml, rels or txt, has no content.
C3_NoExtensionNoContent ==
    Succeeded =>
        \A i \in 1..Len(DirRecords) :
            (~NamesDirectory(DirRecords[i].name) /\ ~HasTextualExtension(DirRecords[i].name))
                => Summary[i].content = <<>>

\* C4: a file entry whose extension lower-cased is xml, rels or txt has
\* content, the lossy decoding of that record's payload.
C4_TextualContent ==
    Succeeded =>
        \A i \in 1..Len(DirRecords) :
            (~NamesDirectory(DirRecords[i].name) /\ HasTextualExtension(DirRecords[i].name))
                => Summary[i].content = << FromUtf8Lossy(DirRecords[i].data) >>

C4_Witness ==
    /\ Succeeded
    /\ \E i \in 1..Len(DirRecords) :
        /\ DirRecords[i].name = <<"A",".","X","M","L">>
        /\ Len(DirRecords[i].data) = 2
        /\ Summary[i].content = << <<65, Replacement>> >>

TestText == TestPayload     \* the payload is ASCII: code points equal bytes

TestSummary(size) ==
    << [path |-> <<"w","o","r","d">>, is_dir |-> TRUE, size |-> 0, content |-> <<>>],
       [path |-> <<"w","o","r","d","/","d","o","c","u","m","e","n","t",".","x","m","l">>,
        is_dir |-> FALSE, size |-> size, content |-> <<TestText>>] >>

\* C5 as stated: the test archive yields "word" (directory, size 0, no content)
\* and "word/document.xml" (file, size 41, content the document text).
C5_TestScenarioSize41 ==
    (Done /\ bytes = TestArchive) => result = [err |-> <<>>, summary |-> <<TestSummary(41)>>]

\* C5 amended: the same two entries, the file's size being 40, the number of
\* bytes of the document text.
C5_TestScenarioSize40 ==
    (Done /\ bytes = TestArchive) => result = [err |-> <<>>, summary |-> <<TestSummary(40)>>]

C5_Witness == Done /\ bytes = TestArchive /\ Len(entries) = 2

\* C6: a call fails fast: an open failure, or the first failing record i, gives
\* an error with that failure's message and no summary; records after i are
\* not touched.
C6_FailFast ==
    Done =>
        /\ bytes.open_err # NoErr =>
              /\ result = [err |-> <<bytes.open_err>>, summary |-> <<>>]
              /\ visited = <<>>
              /\ payload_reads = {}
        /\ \A i \in 1..Len(DirRecords) :
              FirstFailure(i) =>
                  /\ result = [err |-> <<FailureMsg(DirRecords[i])>>, summary |-> <<>>]
                  /\ visited = [j \in 1..i |-> j]
                  /\ payload_reads \subseteq 1..i

C6_Witness ==
    /\ Done
    /\ Len(DirRecords) = 2
    /\ FirstFailure(2)
    /\ Len(entries) = 1
    /\ result.err # <<>>

\* C7: a call fails exactly when the container does not open or some record
\* fails; otherwise it succeeds whatever the payloads hold.
C7_OnlyThreeCauses ==
    Done =>
        /\ result.err # <<>> <=>
              (bytes.open_err # NoErr \/ \E i \in 1..Len(DirRecords) : Fails(DirRecords[i]))
        /\ result.err = <<>> => Len(result.summary) = 1 /\ Len(Summary) = Len(DirRecords)

C7_Witness ==
    /\ Succeeded
    /\ \E i \in 1..Len(DirRecords) :
        /\ HasTextualExtension(DirRecords[i].name)
        /\ DirRecords[i].data = <<169, 195>>
        /\ Summary[i].content = << <<Replacement, Replacement>> >>

\* C8: a file entry's size is the number of bytes of its payload, with or
\* without content.
C8_SizeIsPayloadLength ==
    Succeeded =>
        \A i \in 1..Len(DirRecords) :
            ~Summary[i].is_dir => Summary[i].size = Len(DirRecords[i].data)

C8_Witness ==
    /\ Succeeded
    /\ \E i, j \in 1..Len(DirRecords) :
        /\ Summary[i].content # <<>>
        /\ StrLen(Summary[i].content[1]) # Summary[i].size
        /\ ~Summary[j].is_dir
        /\ Summary[j].content = <<>>
        /\ Summary[j].size > 0

\* C9: the payload of a directory record is never read, and its entry has
\* is_dir, size 0 and no content.
C9_DirectoryEntries ==
    \A i \in 1..Len(DirRecords) :
        NamesDirectory(DirRecords[i].name) =>
            /\ i \notin payload_reads
            /\ Succeeded =>
                  /\ Summary[i].is_dir
                  /\ Summary[i].size = 0
                  /\ Summary[i].content = <<>>

C9_Witness ==
    /\ Succeeded
    /\ \E i \in 1..Len(DirRecords) :
        /\ DirRecords[i].name = <<"a",".","x","m","l","/">>
        /\ DirRecords[i].data # <<>>
        /\ DirRecords[i].data_err # NoErr

\* C10: a call on a buffer returns what an earlier call on the same buffer
\* returned, whatever was called in between and whether or not init ran; a
\* call leaves the caller's buffer as it was.
C10_Deterministic ==
    /\ [](Done /\ prev # <<>> /\ prev[1].bytes = bytes => result = prev[1].result)
    /\ [][pc = "loop" => bytes' = bytes]_vars

C10_Witness ==
    /\ Succeeded
    /\ prev # <<>>
    /\ prev[1].bytes = bytes
    /\ ~prev[1].hook
    /\ hook
    /\ Len(Summary) = 2

====
